---- MODULE Spec2Model ----
(***************************************************************************)
(* strava-autopilot (src/autopilot/run.js): the lap classifier and merger, *)
(* the workout description synthesizer, the bounded lap poller, the read   *)
(* budget of one scheduled run and the weekly total aggregator.            *)
(*                                                                         *)
(* Numbers.  Distances are whole metres and times whole seconds.  A pace   *)
(* (minutes per unit in the source) is kept as the exact rational          *)
(* seconds*UnitNum / (meters*UnitDen) seconds per unit, and the bounds of  *)
(* a pace range are whole seconds per unit (60 times the source's value),  *)
(* so every comparison and rounding below is exact integer arithmetic.     *)
(***************************************************************************)
EXTENDS Integers, Sequences, FiniteSets, TLC

VARIABLES
  wpc,        \* position of the workout pipeline: "input", "merged", "remerged", "described"
  wLaps,      \* laps: the raw laps handed to generateWorkoutDescription / mergeLapsByPace
  wRange,     \* paceRange: [fastest, slowest] in seconds per unit
  wUnit,      \* unitSystem: "mi" or "km"
  wSegments,  \* mergeLapsByPace(laps, paceRange, unitSystem)
  wRemerged,  \* mergeLapsByPace applied to its own output
  wWorkout,   \* generateWorkoutDescription(laps, paceRange, unitSystem)
  settings,   \* settings.json and the credentials of the environment
  srvToday,   \* the service: today's activities, in listing order
  srvWeek,    \* the service: the previous week's activities, in listing order
  run,        \* number of the scheduled run
  now,        \* nowInTz(settings): minutes after local midnight
  pc,         \* position in main, fetchLapsWithRetry and maybeFinalizePreviousWeek
  exitCode,   \* process.exitCode (0 until fail() sets it)
  readsUsed,  \* readsUsed
  readsIssued,\* stravaGet calls made so far in this run
  activities, \* activities: the list response
  actIdx,     \* position of the for-of loop in activities
  detail,     \* detail
  attempt,    \* attempt of fetchLapsWithRetry
  pollOutcome,\* "none", "POLLING", "SUCCESS" or "EXHAUSTED"
  pollLog,    \* what the current fetchLapsWithRetry call did, in order
  lapsResult, \* laps of main: what fetchLapsWithRetry returned (<<>> for null)
  update,     \* update: the payload of the next stravaPutActivity
  puts,       \* the stravaPutActivity calls of this run, in order
  page,       \* page of maybeFinalizePreviousWeek
  weekActivities, \* activities of maybeFinalizePreviousWeek
  weekAppliedRun, \* history: the run whose weekly rename first succeeded (0: none yet)
  renames         \* history: the per-activity renames that succeeded, [id, name, run]

workVars == <<wpc, wLaps, wRange, wUnit, wSegments, wRemerged, wWorkout>>

envVars == <<settings, srvToday, srvWeek, weekAppliedRun, renames>>

runVars == <<run, now, pc, exitCode, readsUsed, readsIssued, activities, actIdx, detail,
             attempt, pollOutcome, pollLog, lapsResult, update, puts, page, weekActivities>>

vars == <<workVars, envVars, runVars>>

(***************************************************************************)
(* Bounds of the model.                                                    *)
(***************************************************************************)
MaxLaps == 4   \* longest free lap sequence
MaxReps == 4   \* most reps of an interval session
MaxReads == 5     \* largest maxReadsPerRun
MaxMinutes == 1   \* largest lapRetryMaxMinutes
MaxActs == 2      \* most activities of today
MaxRuns == 2      \* scheduled runs

(***************************************************************************)
(* Helpers.                                                                *)
(***************************************************************************)
Null == [null |-> TRUE]

Min(a, b) == IF a <= b THEN a ELSE b
Max(a, b) == IF a >= b THEN a ELSE b

Abs(x) == IF x < 0 THEN -x ELSE x

\* Math.round of the non-negative rational num/den (round half up).
RoundDiv(num, den) == (2 * num + den) \div (2 * den)

RECURSIVE SumOver(_, _, _)
\* Array.prototype.reduce((sum, x) => sum + f(x), 0), left to right.
SumOver(seq, field, i) ==
  IF i > Len(seq) THEN 0
  ELSE (IF field = "distance" THEN seq[i].distance ELSE seq[i].moving_time)
       + SumOver(seq, field, i + 1)

SumDistance(seq) == SumOver(seq, "distance", 1)
SumMovingTime(seq) == SumOver(seq, "moving_time", 1)

(***************************************************************************)
(* Pace / unit conversion.                                                 *)
(***************************************************************************)
\* metres per unit as the fraction UnitNum/UnitDen: 1609.344 = 201168/125 m per
\* mile, 1000 m per kilometre
UnitNum(unitSystem) == IF unitSystem = "mi" THEN 201168 ELSE 1000
UnitDen(unitSystem) == IF unitSystem = "mi" THEN 125 ELSE 1

\* paceMinutesPerUnit: null when meters <= 0, otherwise the rational
\* num/den seconds per unit (60 times the source's minutes per unit).
paceMinutesPerUnit(meters, seconds, unitSystem) ==
  IF meters <= 0 THEN Null
  ELSE [null |-> FALSE, num |-> seconds * UnitNum(unitSystem),
        den |-> meters * UnitDen(unitSystem)]

\* pace != null && pace >= paceRange.fastest && pace <= paceRange.slowest
InPaceRange(pace, paceRange) ==
  /\ ~pace.null
  /\ pace.num >= paceRange.fastest * pace.den
  /\ pace.num <= paceRange.slowest * pace.den

\* formatPace: '-' or 'M:SS min/unit'
formatPace(meters, seconds, unitSystem) ==
  LET pace == paceMinutesPerUnit(meters, seconds, unitSystem) IN
  IF pace.null THEN [dash |-> TRUE, mins |-> 0, secs |-> 0, label |-> unitSystem]
  ELSE LET totalSeconds == RoundDiv(pace.num, pace.den) IN
       [dash |-> FALSE, mins |-> totalSeconds \div 60, secs |-> totalSeconds % 60,
        label |-> unitSystem]

\* formatDuration: 'M:SS'
formatDuration(seconds) == [mins |-> seconds \div 60, secs |-> seconds % 60]

\* the default tolerance of snapToMinuteIfClose
ToleranceSeconds == 2

snapToMinuteIfClose(seconds) ==
  LET nearestMinute == RoundDiv(seconds, 60) * 60 IN
  IF Abs(seconds - nearestMinute) <= ToleranceSeconds THEN nearestMinute ELSE seconds

(***************************************************************************)
(* Lap classifier and merger.  A lap is [lap_index, distance, moving_time, *)
(* merged, span]; span = <<start, end>> stands for the name                *)
(* 'Merged laps start-end' of a merged segment (<<i, i>> on a raw lap).     *)
(***************************************************************************)
qualifies(lap, paceRange, unitSystem) ==
  InPaceRange(paceMinutesPerUnit(lap.distance, lap.moving_time, unitSystem), paceRange)

\* MergedSegment keeping the first lap's distance instead of the group's sum
MergedSegmentFirstDistance(group) ==
  [lap_index   |-> group[1].lap_index,
   distance    |-> group[1].distance,
   moving_time |-> SumMovingTime(group),
   merged      |-> TRUE,
   span        |-> <<group[1].lap_index, group[Len(group)].lap_index>>]

\* MergedSegment keeping the first lap's moving time instead of the group's sum
MergedSegmentFirstTime(group) ==
  [lap_index   |-> group[1].lap_index,
   distance    |-> SumDistance(group),
   moving_time |-> group[1].moving_time,
   merged      |-> TRUE,
   span        |-> <<group[1].lap_index, group[Len(group)].lap_index>>]

\* the segment flushGroup pushes for a group of two or more laps
MergedSegment(group) ==
  [lap_index   |-> group[1].lap_index,
   distance    |-> SumDistance(group),
   moving_time |-> SumMovingTime(group),
   merged      |-> TRUE,
   span        |-> <<group[1].lap_index, group[Len(group)].lap_index>>]

\* flushGroup that pushes the first lap of the group and drops the others
flushGroupFirstOnly(merged, group) ==
  IF Len(group) = 0 THEN merged ELSE Append(merged, group[1])

\* flushGroup: the value of `merged` after the call (group is emptied by the caller)
flushGroup(merged, group) ==
  IF Len(group) = 0 THEN merged
  ELSE IF Len(group) = 1 THEN Append(merged, group[1])
  ELSE Append(merged, MergedSegment(group))

RECURSIVE MergeLoop(_, _, _, _, _, _)
\* the for-loop of mergeLapsByPace from lap i on, with the trailing flushGroup()
MergeLoop(laps, paceRange, unitSystem, i, merged, group) ==
  IF i > Len(laps) THEN flushGroup(merged, group)
  ELSE IF qualifies(laps[i], paceRange, unitSystem)
       THEN MergeLoop(laps, paceRange, unitSystem, i + 1, merged, Append(group, laps[i]))
       ELSE MergeLoop(laps, paceRange, unitSystem, i + 1,
                      Append(flushGroup(merged, group), laps[i]), <<>>)

mergeLapsByPace(laps, paceRange, unitSystem) ==
  MergeLoop(laps, paceRange, unitSystem, 1, <<>>, <<>>)

(***************************************************************************)
(* Workout description synthesizer.                                        *)
(***************************************************************************)
\* isWork: the qualifying test reapplied to a segment
isWork(seg, paceRange, unitSystem) ==
  InPaceRange(paceMinutesPerUnit(seg.distance, seg.moving_time, unitSystem), paceRange)

RECURSIVE FindIndexFrom(_, _, _, _)
\* segments.findIndex(isWork), searching from position i; 0 when none (-1 in the source)
FindIndexFrom(segments, paceRange, unitSystem, i) ==
  IF i > Len(segments) THEN 0
  ELSE IF isWork(segments[i], paceRange, unitSystem) THEN i
  ELSE FindIndexFrom(segments, paceRange, unitSystem, i + 1)

firstFastIdx(segments, paceRange, unitSystem) == FindIndexFrom(segments, paceRange, unitSystem, 1)

RECURSIVE FindLastFrom(_, _, _, _)
\* the downward loop that sets lastFastIdx; 0 when none (-1 in the source)
FindLastFrom(segments, paceRange, unitSystem, i) ==
  IF i < 1 THEN 0
  ELSE IF isWork(segments[i], paceRange, unitSystem) THEN i
  ELSE FindLastFrom(segments, paceRange, unitSystem, i - 1)

lastFastIdx(segments, paceRange, unitSystem) ==
  FindLastFrom(segments, paceRange, unitSystem, Len(segments))

\* AddRest that keeps the last segment's moving time only (= in place of +=)
AddRestReplace(reps, seconds) ==
  [reps EXCEPT ![Len(reps)].restSeconds = seconds]

\* reps[reps.length - 1].restSeconds += seg.moving_time
AddRest(reps, seconds) ==
  [reps EXCEPT ![Len(reps)].restSeconds = @ + seconds]

RECURSIVE RepsLoop(_, _, _, _, _, _)
\* the loop over [firstFastIdx, lastFastIdx] that builds reps
RepsLoop(segments, paceRange, unitSystem, i, last, reps) ==
  IF i > last THEN reps
  ELSE IF isWork(segments[i], paceRange, unitSystem)
       THEN RepsLoop(segments, paceRange, unitSystem, i + 1, last,
                     Append(reps, [fast |-> segments[i], restSeconds |-> 0]))
       ELSE IF Len(reps) > 0
            THEN RepsLoop(segments, paceRange, unitSystem, i + 1, last,
                          AddRest(reps, segments[i].moving_time))
            ELSE RepsLoop(segments, paceRange, unitSystem, i + 1, last, reps)

\* WorkoutReps with the loop running to the end of segments instead of lastFastIdx
WorkoutRepsPastLast(laps, paceRange, unitSystem) ==
  LET segments == mergeLapsByPace(laps, paceRange, unitSystem)
      first == firstFastIdx(segments, paceRange, unitSystem)
      last == lastFastIdx(segments, paceRange, unitSystem)
  IN IF first = 0 \/ last = 0 THEN <<>>
     ELSE RepsLoop(segments, paceRange, unitSystem, first, Len(segments), <<>>)

\* the reps array of generateWorkoutDescription (empty when no segment qualifies)
WorkoutReps(laps, paceRange, unitSystem) ==
  LET segments == mergeLapsByPace(laps, paceRange, unitSystem)
      first == firstFastIdx(segments, paceRange, unitSystem)
      last == lastFastIdx(segments, paceRange, unitSystem)
  IN IF first = 0 \/ last = 0 THEN <<>>
     ELSE RepsLoop(segments, paceRange, unitSystem, first, last, <<>>)

\* segments.slice(lastFastIdx + 1).reduce((sum, seg) => sum + seg.moving_time, 0)
cooldownSeconds(segments, last) ==
  SumMovingTime(SubSeq(segments, last + 1, Len(segments)))

RECURSIVE InsertSorted(_, _)
InsertSorted(sorted, v) ==
  IF Len(sorted) = 0 THEN <<v>>
  ELSE IF v < sorted[1] THEN <<v>> \o sorted
  ELSE <<sorted[1]>> \o InsertSorted(Tail(sorted), v)

RECURSIVE SortAscFrom(_, _)
SortAscFrom(values, i) ==
  IF i > Len(values) THEN <<>>
  ELSE InsertSorted(SortAscFrom(values, i + 1), values[i])

\* [...values].sort((a, b) => a - b)
SortAsc(values) == SortAscFrom(values, 1)

\* median with Math.floor in place of Math.round
medianFloor(values) ==
  LET sorted == SortAsc(values)
      mid == Len(sorted) \div 2
  IN IF Len(sorted) % 2 = 1 THEN sorted[mid + 1]
     ELSE (sorted[mid] + sorted[mid + 1]) \div 2

\* median: the middle of the sorted values, or Math.round of the mean of the two central ones
median(values) ==
  LET sorted == SortAsc(values)
      mid == Len(sorted) \div 2      \* 0-based index in the source: element mid + 1 here
  IN IF Len(sorted) % 2 = 1 THEN sorted[mid + 1]
     ELSE RoundDiv(sorted[mid] + sorted[mid + 1], 2)

\* reps.map((rep) => snapToMinuteIfClose(rep.fast.moving_time))
repTimesRounded(reps) ==
  [i \in 1..Len(reps) |-> snapToMinuteIfClose(reps[i].fast.moving_time)]

RECURSIVE SumSeq(_, _)
SumSeq(values, i) == IF i > Len(values) THEN 0 ELSE values[i] + SumSeq(values, i + 1)

RECURSIVE SumFastMeters(_, _)
SumFastMeters(reps, i) ==
  IF i > Len(reps) THEN 0 ELSE reps[i].fast.distance + SumFastMeters(reps, i + 1)

\* header: '{formatDuration(typical)} x {reps.length} (avg {fastAvgPace})'
WorkoutHeader(reps, unitSystem) ==
  [typical |-> formatDuration(median(repTimesRounded(reps))),
   count   |-> Len(reps),
   avg     |-> formatPace(SumFastMeters(reps, 1), SumSeq(repTimesRounded(reps), 1), unitSystem)]

\* the base of a body line: '{idx}) {duration} @ {pace}'
LineBase(reps, idx, unitSystem) ==
  LET repSeconds == snapToMinuteIfClose(reps[idx].fast.moving_time)
  IN [n    |-> idx,
      dur  |-> formatDuration(repSeconds),
      pace |-> formatPace(reps[idx].fast.distance, repSeconds, unitSystem)]

\* WorkoutLine that appends ' + CD' to the last rep whatever the cooldown
WorkoutLineAlwaysCD(reps, idx, cooldown, unitSystem) ==
  IF reps[idx].restSeconds > 0 /\ idx < Len(reps)
  THEN [base |-> LineBase(reps, idx, unitSystem), rest |-> TRUE,
        restDur |-> formatDuration(snapToMinuteIfClose(reps[idx].restSeconds)), cd |-> FALSE]
  ELSE IF idx = Len(reps)
       THEN [base |-> LineBase(reps, idx, unitSystem), rest |-> FALSE,
             restDur |-> formatDuration(0), cd |-> TRUE]
       ELSE [base |-> LineBase(reps, idx, unitSystem), rest |-> FALSE,
             restDur |-> formatDuration(0), cd |-> FALSE]

\* one body line: the base, then ' + rest {duration}' (rest, restDur), ' + CD' (cd)
\* or nothing
WorkoutLine(reps, idx, cooldown, unitSystem) ==
  IF reps[idx].restSeconds > 0 /\ idx < Len(reps)
  THEN [base |-> LineBase(reps, idx, unitSystem), rest |-> TRUE,
        restDur |-> formatDuration(snapToMinuteIfClose(reps[idx].restSeconds)), cd |-> FALSE]
  ELSE IF idx = Len(reps) /\ cooldown > 0
       THEN [base |-> LineBase(reps, idx, unitSystem), rest |-> FALSE,
             restDur |-> formatDuration(0), cd |-> TRUE]
       ELSE [base |-> LineBase(reps, idx, unitSystem), rest |-> FALSE,
             restDur |-> formatDuration(0), cd |-> FALSE]

\* generateWorkoutDescription: Null or {name: header, description: the body lines}
generateWorkoutDescription(laps, paceRange, unitSystem) ==
  IF Len(laps) = 0 THEN Null
  ELSE LET segments == mergeLapsByPace(laps, paceRange, unitSystem)
           first == firstFastIdx(segments, paceRange, unitSystem)
           last == lastFastIdx(segments, paceRange, unitSystem)
           reps == WorkoutReps(laps, paceRange, unitSystem)
       IN IF first = 0 \/ last = 0 \/ Len(reps) = 0 THEN Null
          ELSE [null        |-> FALSE,
                name        |-> WorkoutHeader(reps, unitSystem),
                description |-> [i \in 1..Len(reps) |->
                                   WorkoutLine(reps, i, cooldownSeconds(segments, last),
                                               unitSystem)]]

(***************************************************************************)
(* Names.  An activity name is a sequence of tokens: a piece of plain text, *)
(* a workout header 'M:SS x N (avg M:SS min/unit)' or a weekly suffix       *)
(* '(Week Total: X.Y unit)'.  v holds the numbers the token prints.         *)
(***************************************************************************)
Text(t) == [k |-> "text", text |-> t, v |-> <<>>]

HeaderTok(header) ==
  [k |-> "hdr", text |-> header.avg.label,
   v |-> <<header.typical.mins, header.typical.secs, header.count,
           IF header.avg.dash THEN 1 ELSE 0, header.avg.mins, header.avg.secs>>]

WeekTotalTok(tenths, label) == [k |-> "wt", text |-> label, v |-> <<tenths>>]

\* isDefaultName that accepts every name
isDefaultNameAny(name, defaults) == TRUE

\* isDefaultName: defaults.includes(name)
isDefaultName(name, defaults) == name \in defaults

\* the plain texts of the model that contain 'Easy Run' in any case
EasyRunTexts == {"Easy Run", "easy run with strides"}

\* isAlreadyRenamed: /Easy Run/i, /Week Total:\s*/i, /^\d+:\d{2}\s+x\s+\d+/i.
\* A header at the start matches the third pattern when its minutes print as
\* digits (no sign), its seconds, padded to two places, print as exactly two
\* digits, and its count prints as digits
isAlreadyRenamed(name) ==
  IF Len(name) = 0 THEN FALSE
  ELSE IF \E i \in DOMAIN name : name[i].k = "text" /\ name[i].text \in EasyRunTexts THEN TRUE
  ELSE IF \E i \in DOMAIN name : name[i].k = "wt" THEN TRUE
  ELSE /\ name[1].k = "hdr"
       /\ name[1].v[1] >= 0
       /\ name[1].v[2] \in 0..99
       /\ name[1].v[3] >= 0

(***************************************************************************)
(* Settings and time.                                                      *)
(***************************************************************************)
\* isWithinActiveHours (both times of activeHours parse)
isWithinActiveHours(s, nowMinutes) ==
  /\ nowMinutes >= s.activeHours.start
  /\ nowMinutes <= s.activeHours.end

\* retryPolicy.maxReadsPerRun
maxReadsPerRun == settings.maxReadsPerRun

(***************************************************************************)
(* Numbers of the poller.  intervalMs may be 0, and a division by 0 gives   *)
(* Infinity or NaN in the source: a number is [k, n] with k "num", "inf"    *)
(* or "nan".                                                               *)
(***************************************************************************)
Num(n) == [k |-> "num", n |-> n]
Infinity == [k |-> "inf", n |-> 0]
NaN == [k |-> "nan", n |-> 0]

\* (retryPolicy.lapRetryIntervalSeconds ?? 60) * 1000
intervalMs(s) == s.lapRetryIntervalSeconds * 1000

\* Math.max(1, Math.floor((maxMinutes * 60 * 1000) / intervalMs))
maxAttempts(s) ==
  LET budgetMs == s.lapRetryMaxMinutes * 60 * 1000 IN
  IF intervalMs(s) = 0
  THEN (IF budgetMs = 0 THEN NaN ELSE Infinity)
  ELSE Num(Max(1, budgetMs \div intervalMs(s)))

\* attempt <= maxAttempts
AttemptLE(a, m) ==
  IF m.k = "num" THEN a <= m.n ELSE m.k = "inf"

\* attempt < maxAttempts
AttemptLT(a, m) ==
  IF m.k = "num" THEN a < m.n ELSE m.k = "inf"

(***************************************************************************)
(* buildUpdate.  The description of a non-workout (the average heart rate)  *)
(* is not modelled: it is the empty description here.                      *)
(***************************************************************************)
\* buildUpdate that leaves the name of a non-workout as it is
buildUpdateKeepName(activity, lapsIn, paceRange, s) ==
  LET unitSystem == IF s.unitSystem = "km" THEN "km" ELSE "mi"
      workout == generateWorkoutDescription(lapsIn, paceRange, unitSystem)
  IN IF ~workout.null
     THEN [name |-> <<HeaderTok(workout.name)>>, description |-> workout.description]
     ELSE [name |-> activity.name, description |-> <<>>]

\* buildUpdate: the workout's header and body, or 'Easy Run'
buildUpdate(activity, lapsIn, paceRange, s) ==
  LET unitSystem == IF s.unitSystem = "km" THEN "km" ELSE "mi"
      workout == generateWorkoutDescription(lapsIn, paceRange, unitSystem)
  IN IF ~workout.null
     THEN [name |-> <<HeaderTok(workout.name)>>, description |-> workout.description]
     ELSE [name |-> <<Text("Easy Run")>>, description |-> <<>>]

(***************************************************************************)
(* Weekly total.                                                           *)
(***************************************************************************)
\* perPage of maybeFinalizePreviousWeek
WeekPerPage == 200

\* the first 30 minutes of the active window
WeekWindowMinutes == 30

\* formatWeekTotalSuffix: '(Week Total: X.Y unit)', units.toFixed(1) in tenths
formatWeekTotalSuffix(totalMeters, unitSystem) ==
  WeekTotalTok(RoundDiv(totalMeters * 10 * UnitDen(unitSystem), UnitNum(unitSystem)),
               IF unitSystem = "mi" THEN "mi" ELSE "km")

\* name.replace(/\s*\(Week Total: [^)]+\)\s*$/i, '').trim()
StripWeekTotal(name) ==
  IF Len(name) > 0 /\ name[Len(name)].k = "wt" THEN SubSeq(name, 1, Len(name) - 1) ELSE name

\* appendWeekTotalSuffix that strips the old suffix and forgets the new one
appendWeekTotalSuffixDropped(name, suffix) == StripWeekTotal(name)

\* appendWeekTotalSuffix
appendWeekTotalSuffix(name, suffix) == Append(StripWeekTotal(name), suffix)

\* name.includes(suffix)
NameIncludes(name, suffix) == \E i \in DOMAIN name : name[i] = suffix

\* looksLikeRun(a.type) || looksLikeRun(a.sport_type)
IsRunActivity(a) == a.isRun

\* a.start_date is truthy
HasStartDate(a) == a.start_date # 0

RECURSIVE InsertByStartDesc(_, _)
\* a stable insertion at the end of the block of items not older than a
InsertByStartDesc(sorted, a) ==
  IF Len(sorted) = 0 THEN <<a>>
  ELSE IF a.start_date > sorted[1].start_date THEN <<a>> \o sorted
  ELSE <<sorted[1]>> \o InsertByStartDesc(Tail(sorted), a)

RECURSIVE SortByStartDesc(_, _)
\* .sort((a, b) => new Date(b.start_date) - new Date(a.start_date)), stable
SortByStartDesc(acts, n) ==
  IF n = 0 THEN <<>>
  ELSE InsertByStartDesc(SortByStartDesc(acts, n - 1), acts[n])

RECURSIVE FindNotRace(_, _)
\* .find((a) => a.workout_type !== 1): its position, 0 when there is none
FindNotRace(acts, i) ==
  IF i > Len(acts) THEN 0
  ELSE IF acts[i].workout_type # 1 THEN i
  ELSE FindNotRace(acts, i + 1)

\* what maybeFinalizePreviousWeek decides once the listing is complete:
\* rename |-> FALSE for each early return, or the target and its new name
WeekDecision(acts, s) ==
  LET runs == SelectSeq(acts, IsRunActivity)
      totalMeters == SumDistance(runs)
      dated == SelectSeq(runs, HasStartDate)
      sorted == SortByStartDesc(dated, Len(dated))
      at == FindNotRace(sorted, 1)
      suffix == formatWeekTotalSuffix(totalMeters, IF s.unitSystem = "km" THEN "km" ELSE "mi")
  IN IF Len(acts) = 0 \/ Len(runs) = 0 \/ at = 0
     THEN [rename |-> FALSE, id |-> 0, name |-> <<>>, was |-> <<>>]
     ELSE IF NameIncludes(sorted[at].name, suffix)
          THEN [rename |-> FALSE, id |-> sorted[at].id, name |-> <<>>, was |-> sorted[at].name]
          ELSE [rename |-> TRUE, id |-> sorted[at].id,
                name |-> appendWeekTotalSuffix(sorted[at].name, suffix),
                was |-> sorted[at].name]

(***************************************************************************)
(* The workout pipeline on bounded inputs: mergeLapsByPace, mergeLapsByPace *)
(* on its own output, generateWorkoutDescription.                          *)
(***************************************************************************)
\* (distance, moving_time) of the laps the free sequences are built from.
\* With range [330, 450] s/mi: 400/90, 400/91 and 800/181 qualify, 400/500 is
\* too slow, 400/150 qualifies per km only, 0/30 has no pace and 400/0 (no
\* moving time) is too fast.
LapKinds ==
  {<<400, 90>>, <<400, 91>>, <<800, 181>>, <<400, 500>>, <<400, 150>>, <<0, 30>>, <<400, 0>>}

\* the work laps of an interval session (all qualify in [330, 450] s/mi)
RepKinds == {<<400, 90>>, <<400, 91>>, <<500, 119>>, <<800, 181>>}

\* the recovery lap between two reps of a session, and its cooldown lap
RecoveryKind == <<200, 120>>

PaceRanges == {[fastest |-> 330, slowest |-> 450], [fastest |-> 360, slowest |-> 370]}

UnitSystems == {"mi", "km"}

\* a raw lap as the laps endpoint returns it
RawLap(i, kind) ==
  [lap_index |-> i, distance |-> kind[1], moving_time |-> kind[2],
   merged |-> FALSE, span |-> <<i, i>>]

LapsOf(kinds) == [i \in 1..Len(kinds) |-> RawLap(i, kinds[i])]

FreeLapSeqs ==
  UNION {{LapsOf(k) : k \in [1..n -> LapKinds]} : n \in 0..MaxLaps}

\* rep, recovery, rep, ..., rep and an optional cooldown lap
SessionKinds(reps, cooldown) ==
  [i \in 1..(2 * Len(reps) - 1 + (IF cooldown THEN 1 ELSE 0)) |->
     IF i % 2 = 1 /\ i <= 2 * Len(reps) - 1 THEN reps[(i + 1) \div 2] ELSE RecoveryKind]

SessionLapSeqs ==
  UNION {{LapsOf(SessionKinds(r, cd)) : r \in [1..n -> RepKinds], cd \in BOOLEAN} :
         n \in 2..MaxReps}

\* five reps alternating with recoveries, with or without a lap after the last rep
AlternatingLapSeqs ==
  {LapsOf(SessionKinds(r, cd)) : r \in [1..5 -> {<<400, 90>>, <<500, 119>>}], cd \in BOOLEAN}

\* main's variables when only the workout pipeline runs
MainIdle ==
  /\ settings = Null /\ srvToday = <<>> /\ srvWeek = <<>> /\ weekAppliedRun = 0
  /\ renames = {}
  /\ run = 0 /\ now = 0 /\ pc = "off" /\ exitCode = 0
  /\ readsUsed = 0 /\ readsIssued = 0
  /\ activities = <<>> /\ actIdx = 0 /\ detail = Null
  /\ attempt = 0 /\ pollOutcome = "none" /\ pollLog = <<>> /\ lapsResult = <<>>
  /\ update = Null /\ puts = <<>> /\ page = 0 /\ weekActivities = <<>>

InitWork ==
  /\ wpc = "input"
  /\ wLaps \in FreeLapSeqs \cup SessionLapSeqs \cup AlternatingLapSeqs
  /\ wRange \in PaceRanges
  /\ wUnit \in UnitSystems
  /\ wSegments = <<>>
  /\ wRemerged = <<>>
  /\ wWorkout = Null
  /\ MainIdle

Merge ==
  /\ wpc = "input"
  /\ wSegments' = mergeLapsByPace(wLaps, wRange, wUnit)
  /\ wpc' = "merged"
  /\ UNCHANGED <<wLaps, wRange, wUnit, wRemerged, wWorkout, envVars, runVars>>

Remerge ==
  /\ wpc = "merged"
  /\ wRemerged' = mergeLapsByPace(wSegments, wRange, wUnit)
  /\ wpc' = "remerged"
  /\ UNCHANGED <<wLaps, wRange, wUnit, wSegments, wWorkout, envVars, runVars>>

Describe ==
  /\ wpc = "remerged"
  /\ wWorkout' = generateWorkoutDescription(wLaps, wRange, wUnit)
  /\ wpc' = "described"
  /\ UNCHANGED <<wLaps, wRange, wUnit, wSegments, wRemerged, envVars, runVars>>

NextWork == Merge \/ Remerge \/ Describe

SpecWork == InitWork /\ [][NextWork]_vars

(***************************************************************************)
(* The service and the settings of a run.                                  *)
(***************************************************************************)
\* settings.defaultRunNames
DefaultNames == {<<Text("Morning Run")>>, <<Text("Lunch Run")>>}

\* an activity as the list and detail endpoints return it; isRun is
\* looksLikeRun(type) || looksLikeRun(sport_type); start_date 0 is a missing one
Activity(id, isRun, name, workout_type, distance, start_date) ==
  [id |-> id, isRun |-> isRun, name |-> name, workout_type |-> workout_type,
   distance |-> distance, start_date |-> start_date]

\* today's activities are built from these: a run with a default name, a race
\* with a default name, a run already renamed, a run the athlete named, a ride
TodayKinds == {"run", "race", "renamed", "custom", "ride"}

\* the kinds that differ in the reads they cost
ReadKinds == {"run", "race", "renamed"}

TodayActivity(id, kind) ==
  Activity(id, kind # "ride",
           CASE kind = "renamed" -> <<Text("Easy Run")>>
             [] kind = "custom" -> <<Text("Tempo Tuesday")>>
             [] kind = "ride" -> <<Text("Morning Ride")>>
             [] OTHER -> <<Text("Morning Run")>>,
           IF kind = "race" THEN 1 ELSE 0, 5000, 10 + id)

TodayLists(kinds) ==
  UNION {{[i \in 1..n |-> TodayActivity(i, k[i])] : k \in [1..n -> kinds]} :
         n \in 0..MaxActs}

\* two activities of today, each a run with a default name or one the athlete named
CustomLists ==
  {[i \in 1..2 |-> TodayActivity(i, k[i])] : k \in [1..2 -> {"run", "custom"}]}

\* a full page of rides of the previous week
RidePage == [i \in 1..WeekPerPage |-> Activity(1000 + i, FALSE, <<Text("Morning Ride")>>, 0, 20000, 1)]

\* the previous week: three runs of 5000, 3000 and 2000 m, the latest a race
ThreeRuns ==
  <<Activity(11, TRUE, <<Text("Morning Run")>>, 0, 5000, 2),
    Activity(12, TRUE, <<Text("Lunch Run")>>, 1, 3000, 5),
    Activity(13, TRUE, <<Text("Easy Run")>>, 0, 2000, 4)>>

\* the previous week: a run that carries an older weekly suffix, a later run
\* without a start date, and a ride
StaleSuffix ==
  <<Activity(14, TRUE, <<Text("Long Run"), WeekTotalTok(99, "mi")>>, 0, 8000, 3),
    Activity(16, TRUE, <<Text("Lunch Run")>>, 0, 1000, 0),
    Activity(15, FALSE, <<Text("Morning Ride")>>, 0, 20000, 4)>>

WeekLists == {<<>>, ThreeRuns, StaleSuffix, RidePage \o ThreeRuns}

\* what a laps fetch can return: a failure status, an empty array, or laps
LapsResponses ==
  {[ok |-> FALSE, laps |-> <<>>],
   [ok |-> TRUE, laps |-> <<>>],
   [ok |-> TRUE, laps |-> LapsOf(<<<<400, 90>>, <<400, 91>>, <<400, 500>>>>)],
   [ok |-> TRUE, laps |-> LapsOf(<<<<400, 500>>>>)]}

NoPaceRange == [null |-> TRUE, fastest |-> 0, slowest |-> 0]

OkPaceRange == [null |-> FALSE, fastest |-> 330, slowest |-> 450]

(***************************************************************************)
(* Pace strings of the settings.  A string is 'M:SS' (two numbers around a  *)
(* colon), a decimal number of minutes (here in tenths of a minute), blank, *)
(* or text that is no number.                                              *)
(***************************************************************************)
MSS(m, sec) == [form |-> "mss", m |-> m, s |-> sec]
Dec(tenths) == [form |-> "dec", m |-> tenths, s |-> 0]
Blank == [form |-> "blank", m |-> 0, s |-> 0]
NotANumber == [form |-> "nan", m |-> 0, s |-> 0]

\* parsePace: null, or the pace in seconds per unit (60 times the source's minutes)
parsePace(value) ==
  CASE value.form = "blank" -> [null |-> TRUE, secs |-> 0]
    [] value.form = "mss" ->
         IF value.s < 0 \/ value.s >= 60 \/ value.m < 0
         THEN [null |-> TRUE, secs |-> 0]
         ELSE [null |-> FALSE, secs |-> 60 * value.m + value.s]
    [] value.form = "dec" ->
         IF value.m <= 0 THEN [null |-> TRUE, secs |-> 0]
         ELSE [null |-> FALSE, secs |-> 6 * value.m]
    [] OTHER -> [null |-> TRUE, secs |-> 0]

\* paceRangeFromSettings
paceRangeFromSettings(s) ==
  LET fastest == parsePace(s.paceRange.fastest)
      slowest == parsePace(s.paceRange.slowest)
  IN IF fastest.null \/ slowest.null THEN NoPaceRange
     ELSE [null |-> FALSE,
           fastest |-> Min(fastest.secs, slowest.secs),
           slowest |-> Max(fastest.secs, slowest.secs)]

\* settings.paceRange of 5:30 to 7:30 per unit, and one whose slowest is blank
OkPaceSetting == [fastest |-> MSS(5, 30), slowest |-> Dec(75)]

BadPaceSetting == [fastest |-> MSS(5, 30), slowest |-> Blank]

\* the pace strings of the model
PaceTexts ==
  {MSS(5, 30), MSS(7, 30), MSS(0, 0), MSS(0, 45), MSS(6, 60), MSS(6, -5), MSS(-1, 30),
   Dec(65), Dec(75), Dec(0), Dec(-10), Blank, NotANumber}

SettingsChoices(reads, intervals, minutes, flags, creds, ranges) ==
  [maxReadsPerRun          : reads,
   lapRetryIntervalSeconds : intervals,
   lapRetryMaxMinutes      : minutes,
   weekTotals              : flags,
   credentials             : creds,
   paceRange               : ranges,
   unitSystem              : {"mi"},
   activeHours             : {[start |-> 360, end |-> 1260]},
   defaultRunNames         : {DefaultNames}]

\* local times of a run: before the active hours, at the end of the first 30
\* minutes of the window, and one minute later
NowChoices == {350, 390, 391}

\* the variables of a run before main starts
FreshRun ==
  /\ pc = "start"
  /\ exitCode = 0
  /\ readsUsed = 0
  /\ readsIssued = 0
  /\ activities = <<>>
  /\ actIdx = 0
  /\ detail = Null
  /\ attempt = 0
  /\ pollOutcome = "none"
  /\ pollLog = <<>>
  /\ lapsResult = <<>>
  /\ update = Null
  /\ puts = <<>>
  /\ page = 0
  /\ weekActivities = <<>>

\* the workout pipeline variables when only main runs
WorkIdle ==
  /\ wpc = "off"
  /\ wLaps = <<>>
  /\ wRange = NoPaceRange
  /\ wUnit = "mi"
  /\ wSegments = <<>>
  /\ wRemerged = <<>>
  /\ wWorkout = Null

\* one run of main: every read budget and retry policy, today's activities of
\* the kinds that differ in reads and two-activity lists with a custom name, a
\* previous week of one page and the weekly total on (SpecWeek has the week
\* of two pages and the weekly total off)
Init ==
  /\ WorkIdle
  /\ settings \in SettingsChoices(0..MaxReads, {0, 30}, 0..MaxMinutes, {TRUE}, BOOLEAN,
                                   {OkPaceSetting})
  /\ srvToday \in TodayLists(ReadKinds) \cup CustomLists
  /\ srvWeek = ThreeRuns
  /\ weekAppliedRun = 0
  /\ renames = {}
  /\ run = 1
  /\ now \in NowChoices
  /\ FreshRun

(***************************************************************************)
(* main.                                                                   *)
(***************************************************************************)
runLocal == <<activities, actIdx, detail, attempt, pollOutcome, pollLog, lapsResult,
              update, puts, page, weekActivities>>

\* main up to the token refresh: the active-hours exit and the two
\* configuration errors, which reach main().catch and fail(); paceRange
\* (wRange) is paceRangeFromSettings(settings)
StartRun ==
  /\ pc = "start"
  /\ IF ~isWithinActiveHours(settings, now)
     THEN pc' = "done" /\ exitCode' = exitCode /\ wRange' = wRange
     ELSE IF ~settings.credentials
          THEN pc' = "done" /\ exitCode' = 1 /\ wRange' = wRange
          ELSE /\ wRange' = paceRangeFromSettings(settings)
               /\ IF wRange'.null
                  THEN pc' = "done" /\ exitCode' = 1
                  ELSE pc' = "refresh" /\ exitCode' = exitCode
  /\ UNCHANGED <<wpc, wLaps, wUnit, wSegments, wRemerged, wWorkout, envVars, run, now,
                 readsUsed, readsIssued, runLocal>>

\* refreshAccessToken: it returns a token or throws
RefreshToken ==
  /\ pc = "refresh"
  /\ \E ok \in BOOLEAN :
       IF ok THEN pc' = "list" /\ exitCode' = exitCode
       ELSE pc' = "done" /\ exitCode' = 1
  /\ UNCHANGED <<workVars, envVars, run, now, readsUsed, readsIssued, runLocal>>

\* the listing of today's activities; a failure status throws
ListActivities ==
  /\ pc = "list"
  /\ readsIssued' = readsIssued + 1
  /\ readsUsed' = 0 + 1
  /\ \E ok \in BOOLEAN :
       IF ok
       THEN /\ activities' = srvToday
            /\ actIdx' = 1
            /\ pc' = "loop"
            /\ exitCode' = exitCode
       ELSE /\ pc' = "done"
            /\ exitCode' = 1
            /\ UNCHANGED <<activities, actIdx>>
  /\ UNCHANGED <<workVars, envVars, run, now, detail, attempt, pollOutcome, pollLog,
                 lapsResult, update, puts, page, weekActivities>>

\* the head of the for-of loop: the end of the list, the read cap, and the
\* three skips that need no read
ActivityLoop ==
  /\ pc = "loop"
  /\ IF actIdx > Len(activities) \/ readsUsed >= maxReadsPerRun
     THEN pc' = "weekly" /\ actIdx' = actIdx
     ELSE IF \/ ~activities[actIdx].isRun
             \/ isAlreadyRenamed(activities[actIdx].name)
             \/ ~isDefaultName(activities[actIdx].name, settings.defaultRunNames)
          THEN pc' = "loop" /\ actIdx' = actIdx + 1
          ELSE pc' = "detail" /\ actIdx' = actIdx
  /\ UNCHANGED <<workVars, envVars, run, now, exitCode, readsUsed, readsIssued, activities,
                 detail, attempt, pollOutcome, pollLog, lapsResult, update, puts, page,
                 weekActivities>>

\* the activity on the service with the id of the summary at hand
OnService == srvToday[CHOOSE i \in DOMAIN srvToday : srvToday[i].id = activities[actIdx].id]

\* GetDetail without the test of workout_type
GetDetailNoRaceTest ==
  /\ pc = "detail"
  /\ readsIssued' = readsIssued + 1
  /\ readsUsed' = readsUsed + 1
  /\ \E ok \in BOOLEAN :
       IF ~ok
       THEN /\ pc' = "loop" /\ actIdx' = actIdx + 1
            /\ UNCHANGED <<detail, attempt, pollOutcome, pollLog, lapsResult>>
       ELSE /\ detail' = OnService
            /\ IF ~isDefaultName(OnService.name, settings.defaultRunNames)
               THEN /\ pc' = "loop" /\ actIdx' = actIdx + 1
                    /\ UNCHANGED <<attempt, pollOutcome, pollLog, lapsResult>>
               ELSE /\ pc' = "poll" /\ actIdx' = actIdx
                    /\ attempt' = 1
                    /\ pollOutcome' = "POLLING"
                    /\ pollLog' = <<>>
                    /\ lapsResult' = <<>>
  /\ UNCHANGED <<workVars, envVars, run, now, exitCode, activities, update, puts, page,
                 weekActivities>>

\* the detail read, the race skip and the second default-name test; then
\* fetchLapsWithRetry is entered
GetDetail ==
  /\ pc = "detail"
  /\ readsIssued' = readsIssued + 1
  /\ readsUsed' = readsUsed + 1
  /\ \E ok \in BOOLEAN :
       IF ~ok
       THEN /\ pc' = "loop" /\ actIdx' = actIdx + 1
            /\ UNCHANGED <<detail, attempt, pollOutcome, pollLog, lapsResult>>
       ELSE /\ detail' = OnService
            /\ IF OnService.workout_type = 1
                  \/ ~isDefaultName(OnService.name, settings.defaultRunNames)
               THEN /\ pc' = "loop" /\ actIdx' = actIdx + 1
                    /\ UNCHANGED <<attempt, pollOutcome, pollLog, lapsResult>>
               ELSE /\ pc' = "poll" /\ actIdx' = actIdx
                    /\ attempt' = 1
                    /\ pollOutcome' = "POLLING"
                    /\ pollLog' = <<>>
                    /\ lapsResult' = <<>>
  /\ UNCHANGED <<workVars, envVars, run, now, exitCode, activities, update, puts, page,
                 weekActivities>>

(***************************************************************************)
(* fetchLapsWithRetry, with canContinue of main.  pollLog records, in      *)
(* order: "permit" / "deny" (the answer of canContinue), "failed" /        *)
(* "empty" / "laps" (what the fetch returned, with the laps), "sleep"      *)
(* (with its milliseconds).                                                *)
(***************************************************************************)
Ev(ev) == [ev |-> ev, laps |-> <<>>, ms |-> 0]

\* PollExit that leaves the loop without settling the outcome
PollExitNoOutcome ==
  /\ pc = "poll"
  /\ ~AttemptLE(attempt, maxAttempts(settings))
  /\ pc' = "afterpoll"
  /\ UNCHANGED <<workVars, envVars, run, now, exitCode, readsUsed, readsIssued, activities,
                 actIdx, detail, attempt, pollOutcome, pollLog, lapsResult, update, puts, page,
                 weekActivities>>

\* the loop condition attempt <= maxAttempts is false: return null
PollExit ==
  /\ pc = "poll"
  /\ ~AttemptLE(attempt, maxAttempts(settings))
  /\ pollOutcome' = "EXHAUSTED"
  /\ pc' = "afterpoll"
  /\ UNCHANGED <<workVars, envVars, run, now, exitCode, readsUsed, readsIssued, activities,
                 actIdx, detail, attempt, pollLog, lapsResult, update, puts, page,
                 weekActivities>>

\* PollDenied that sleeps and goes on to the next attempt instead of returning
PollDeniedThenSleep ==
  /\ pc = "poll"
  /\ AttemptLE(attempt, maxAttempts(settings))
  /\ readsUsed' = readsUsed + 1
  /\ ~(readsUsed' < maxReadsPerRun)
  /\ pollLog' = Append(pollLog, Ev("deny"))
  /\ pc' = "sleep"
  /\ UNCHANGED <<workVars, envVars, run, now, exitCode, readsIssued, activities, actIdx,
                 detail, attempt, pollOutcome, lapsResult, update, puts, page, weekActivities>>

\* canContinue() counts the read and answers false: return null
PollDenied ==
  /\ pc = "poll"
  /\ AttemptLE(attempt, maxAttempts(settings))
  /\ readsUsed' = readsUsed + 1
  /\ ~(readsUsed' < maxReadsPerRun)
  /\ pollLog' = Append(pollLog, Ev("deny"))
  /\ pollOutcome' = "EXHAUSTED"
  /\ pc' = "afterpoll"
  /\ UNCHANGED <<workVars, envVars, run, now, exitCode, readsIssued, activities, actIdx,
                 detail, attempt, lapsResult, update, puts, page, weekActivities>>

\* PollFetch that returns null on a failure status instead of retrying
PollFetchFailureFatal ==
  /\ pc = "poll"
  /\ AttemptLE(attempt, maxAttempts(settings))
  /\ readsUsed' = readsUsed + 1
  /\ readsUsed' < maxReadsPerRun
  /\ readsIssued' = readsIssued + 1
  /\ \E resp \in LapsResponses :
       IF resp.ok /\ Len(resp.laps) > 0
       THEN /\ pollLog' = pollLog \o <<Ev("permit"), [Ev("laps") EXCEPT !.laps = resp.laps]>>
            /\ lapsResult' = resp.laps
            /\ pollOutcome' = "SUCCESS"
            /\ pc' = "afterpoll"
            /\ attempt' = attempt
       ELSE IF ~resp.ok
            THEN /\ pollLog' = pollLog \o <<Ev("permit"), Ev("failed")>>
                 /\ pollOutcome' = "EXHAUSTED"
                 /\ pc' = "afterpoll"
                 /\ UNCHANGED <<lapsResult, attempt>>
            ELSE /\ pollLog' = pollLog \o <<Ev("permit"), Ev("empty")>>
                 /\ UNCHANGED <<lapsResult, pollOutcome>>
                 /\ IF AttemptLT(attempt, maxAttempts(settings))
                    THEN pc' = "sleep" /\ attempt' = attempt
                    ELSE pc' = "poll" /\ attempt' = attempt + 1
  /\ UNCHANGED <<workVars, envVars, run, now, exitCode, activities, actIdx, detail, update,
                 puts, page, weekActivities>>

\* PollFetch without the test attempt < maxAttempts before the sleep
PollFetchAlwaysSleep ==
  /\ pc = "poll"
  /\ AttemptLE(attempt, maxAttempts(settings))
  /\ readsUsed' = readsUsed + 1
  /\ readsUsed' < maxReadsPerRun
  /\ readsIssued' = readsIssued + 1
  /\ \E resp \in LapsResponses :
       IF resp.ok /\ Len(resp.laps) > 0
       THEN /\ pollLog' = pollLog \o <<Ev("permit"), [Ev("laps") EXCEPT !.laps = resp.laps]>>
            /\ lapsResult' = resp.laps
            /\ pollOutcome' = "SUCCESS"
            /\ pc' = "afterpoll"
            /\ attempt' = attempt
       ELSE /\ pollLog' = pollLog \o <<Ev("permit"), Ev(IF resp.ok THEN "empty" ELSE "failed")>>
            /\ UNCHANGED <<lapsResult, pollOutcome>>
            /\ pc' = "sleep" /\ attempt' = attempt
  /\ UNCHANGED <<workVars, envVars, run, now, exitCode, activities, actIdx, detail, update,
                 puts, page, weekActivities>>

\* canContinue() answers true and the laps are fetched: a non-empty array is
\* returned at once; a failure or an empty array goes to the sleep, or to the
\* next attempt when this was the last one
PollFetch ==
  /\ pc = "poll"
  /\ AttemptLE(attempt, maxAttempts(settings))
  /\ readsUsed' = readsUsed + 1
  /\ readsUsed' < maxReadsPerRun
  /\ readsIssued' = readsIssued + 1
  /\ \E resp \in LapsResponses :
       IF resp.ok /\ Len(resp.laps) > 0
       THEN /\ pollLog' = pollLog \o <<Ev("permit"), [Ev("laps") EXCEPT !.laps = resp.laps]>>
            /\ lapsResult' = resp.laps
            /\ pollOutcome' = "SUCCESS"
            /\ pc' = "afterpoll"
            /\ attempt' = attempt
       ELSE /\ pollLog' = pollLog \o <<Ev("permit"), Ev(IF resp.ok THEN "empty" ELSE "failed")>>
            /\ UNCHANGED <<lapsResult, pollOutcome>>
            /\ IF AttemptLT(attempt, maxAttempts(settings))
               THEN pc' = "sleep" /\ attempt' = attempt
               ELSE pc' = "poll" /\ attempt' = attempt + 1
  /\ UNCHANGED <<workVars, envVars, run, now, exitCode, activities, actIdx, detail, update,
                 puts, page, weekActivities>>

\* await sleep(intervalMs), then attempt++
PollSleep ==
  /\ pc = "sleep"
  /\ pollLog' = Append(pollLog, [Ev("sleep") EXCEPT !.ms = intervalMs(settings)])
  /\ attempt' = attempt + 1
  /\ pc' = "poll"
  /\ UNCHANGED <<workVars, envVars, run, now, exitCode, readsUsed, readsIssued, activities,
                 actIdx, detail, pollOutcome, lapsResult, update, puts, page,
                 weekActivities>>

\* main after fetchLapsWithRetry: skip when it returned null, else buildUpdate
HandleLaps ==
  /\ pc = "afterpoll"
  /\ IF pollOutcome = "EXHAUSTED"
     THEN pc' = "loop" /\ actIdx' = actIdx + 1 /\ update' = update
     ELSE /\ update' = buildUpdate(detail, lapsResult, wRange, settings)
          /\ pc' = "put"
          /\ actIdx' = actIdx
  /\ UNCHANGED <<workVars, envVars, run, now, exitCode, readsUsed, readsIssued, activities,
                 detail, attempt, pollOutcome, pollLog, lapsResult, puts, page,
                 weekActivities>>

\* the name of activity id becomes name on the service
Renamed(list, id, name) ==
  [i \in DOMAIN list |-> IF list[i].id = id THEN [list[i] EXCEPT !.name = name] ELSE list[i]]

\* stravaPutActivity(detail.id, update): a failure is logged and skipped
PutActivity ==
  /\ pc = "put"
  /\ puts' = Append(puts, [id |-> detail.id, name |-> update.name, was |-> detail.name,
                           weekly |-> FALSE])
  /\ \E ok \in BOOLEAN :
       /\ srvToday' = IF ok THEN Renamed(srvToday, detail.id, update.name) ELSE srvToday
       /\ renames' = IF ok
                     THEN renames \cup {[id |-> detail.id, name |-> update.name, run |-> run]}
                     ELSE renames
  /\ pc' = "loop"
  /\ actIdx' = actIdx + 1
  /\ UNCHANGED <<workVars, settings, srvWeek, weekAppliedRun, run, now, exitCode, readsUsed,
                 readsIssued, activities, detail, attempt, pollOutcome, pollLog, lapsResult,
                 update, page, weekActivities>>

(***************************************************************************)
(* maybeFinalizePreviousWeek, with consumeRead of main.                    *)
(***************************************************************************)
\* WeekBegin without the 30-minute window
WeekBeginNoWindow ==
  /\ pc = "weekly"
  /\ IF ~settings.weekTotals
     THEN pc' = "done" /\ UNCHANGED <<page, weekActivities>>
     ELSE pc' = "wpage" /\ page' = 1 /\ weekActivities' = <<>>
  /\ UNCHANGED <<workVars, envVars, run, now, exitCode, readsUsed, readsIssued, activities,
                 actIdx, detail, attempt, pollOutcome, pollLog, lapsResult, update, puts>>

\* the feature flag of main and the 30-minute window of the aggregator
WeekBegin ==
  /\ pc = "weekly"
  /\ IF ~settings.weekTotals \/ now > settings.activeHours.start + WeekWindowMinutes
     THEN pc' = "done" /\ UNCHANGED <<page, weekActivities>>
     ELSE pc' = "wpage" /\ page' = 1 /\ weekActivities' = <<>>
  /\ UNCHANGED <<workVars, envVars, run, now, exitCode, readsUsed, readsIssued, activities,
                 actIdx, detail, attempt, pollOutcome, pollLog, lapsResult, update, puts>>

\* consumeRead() counts the read and answers false: return
WeekDenied ==
  /\ pc = "wpage"
  /\ readsUsed' = readsUsed + 1
  /\ ~(readsUsed' < maxReadsPerRun)
  /\ pc' = "done"
  /\ UNCHANGED <<workVars, envVars, run, now, exitCode, readsIssued, activities, actIdx,
                 detail, attempt, pollOutcome, pollLog, lapsResult, update, puts, page,
                 weekActivities>>

\* page p of the previous week's listing
WeekBatch(p) ==
  SubSeq(srvWeek, (p - 1) * WeekPerPage + 1, Min(p * WeekPerPage, Len(srvWeek)))

\* consumeRead() answers true and one page is listed: a failure returns, a
\* full page goes on to the next page, a short page ends the listing
WeekList ==
  /\ pc = "wpage"
  /\ readsUsed' = readsUsed + 1
  /\ readsUsed' < maxReadsPerRun
  /\ readsIssued' = readsIssued + 1
  /\ \E ok \in BOOLEAN :
       IF ~ok
       THEN pc' = "done" /\ UNCHANGED <<page, weekActivities>>
       ELSE /\ weekActivities' = weekActivities \o WeekBatch(page)
            /\ IF Len(WeekBatch(page)) < WeekPerPage
               THEN pc' = "wfinal" /\ page' = page
               ELSE pc' = "wpage" /\ page' = page + 1
  /\ UNCHANGED <<workVars, envVars, run, now, exitCode, activities, actIdx, detail, attempt,
                 pollOutcome, pollLog, lapsResult, update, puts>>

\* the rest of maybeFinalizePreviousWeek up to the rename
WeekFinalize ==
  /\ pc = "wfinal"
  /\ LET d == WeekDecision(weekActivities, settings) IN
       IF d.rename
       THEN pc' = "wput" /\ update' = [name |-> d.name, description |-> <<>>]
       ELSE pc' = "done" /\ update' = update
  /\ UNCHANGED <<workVars, envVars, run, now, exitCode, readsUsed, readsIssued, activities,
                 actIdx, detail, attempt, pollOutcome, pollLog, lapsResult, puts, page,
                 weekActivities>>

\* stravaPutActivity(lastRun.id, {name: newName}): a failure is logged
WeekPut ==
  /\ pc = "wput"
  /\ LET d == WeekDecision(weekActivities, settings) IN
       /\ puts' = Append(puts, [id |-> d.id, name |-> d.name, was |-> d.was, weekly |-> TRUE])
       /\ \E ok \in BOOLEAN :
            /\ srvWeek' = IF ok THEN Renamed(srvWeek, d.id, d.name) ELSE srvWeek
            /\ weekAppliedRun' = IF ok /\ weekAppliedRun = 0 THEN run ELSE weekAppliedRun
  /\ pc' = "done"
  /\ UNCHANGED <<workVars, settings, srvToday, renames, run, now, exitCode, readsUsed,
                 readsIssued, activities, actIdx, detail, attempt, pollOutcome, pollLog, lapsResult,
                 update, page, weekActivities>>

\* the scheduler starts the next run, at some local time of the same day
NewRun ==
  /\ pc = "done"
  /\ run < MaxRuns
  /\ run' = run + 1
  /\ now' \in NowChoices
  /\ pc' = "start" /\ exitCode' = 0 /\ readsUsed' = 0 /\ readsIssued' = 0
  /\ activities' = <<>> /\ actIdx' = 0 /\ detail' = Null
  /\ attempt' = 0 /\ pollOutcome' = "none" /\ pollLog' = <<>> /\ lapsResult' = <<>>
  /\ update' = Null /\ puts' = <<>> /\ page' = 0 /\ weekActivities' = <<>>
  /\ wRange' = NoPaceRange
  /\ UNCHANGED <<wpc, wLaps, wUnit, wSegments, wRemerged, wWorkout, envVars>>

\* one run
Next ==
  \/ StartRun \/ RefreshToken \/ ListActivities \/ ActivityLoop \/ GetDetail
  \/ PollExit \/ PollDenied \/ PollFetch \/ PollSleep \/ HandleLaps \/ PutActivity
  \/ WeekBegin \/ WeekDenied \/ WeekList \/ WeekFinalize \/ WeekPut

Spec == Init /\ [][Next]_vars

\* one run with the weekly total off, in which the poller's awaited calls settle
InitLive ==
  /\ WorkIdle
  /\ settings \in SettingsChoices(0..MaxReads, {0, 30}, 0..MaxMinutes, {FALSE}, {TRUE},
                                   {OkPaceSetting})
  /\ srvToday \in TodayLists({"run"})
  /\ srvWeek = <<>>
  /\ weekAppliedRun = 0
  /\ renames = {}
  /\ run = 1
  /\ now = 390
  /\ FreshRun

NextLive ==
  \/ StartRun \/ RefreshToken \/ ListActivities \/ ActivityLoop \/ GetDetail
  \/ PollExit \/ PollDenied \/ PollFetch \/ PollSleep \/ HandleLaps \/ PutActivity
  \/ WeekBegin

\* a step of fetchLapsWithRetry: the awaited fetch answers and the sleep timer fires
PollStep == PollExit \/ PollDenied \/ PollFetch \/ PollSleep

SpecLive == InitLive /\ [][NextLive]_vars /\ WF_vars(PollStep)

\* runs that find no activity of today, over every previous week of the model
InitWeek ==
  /\ WorkIdle
  /\ settings \in SettingsChoices(0..MaxReads, {30}, {0}, BOOLEAN, {TRUE},
                                   {OkPaceSetting, BadPaceSetting})
  /\ srvToday \in TodayLists({"renamed"})
  /\ srvWeek \in WeekLists
  /\ weekAppliedRun = 0
  /\ renames = {}
  /\ run = 1
  /\ now \in NowChoices
  /\ FreshRun

\* the actions of runs in which no activity of today reaches the detail read
NextWeek ==
  \/ StartRun \/ RefreshToken \/ ListActivities \/ ActivityLoop
  \/ WeekBegin \/ WeekDenied \/ WeekList \/ WeekFinalize \/ WeekPut
  \/ NewRun

SpecWeek == InitWeek /\ [][NextWeek]_vars

\* main up to paceRangeFromSettings, over every pair of pace strings
InitPace ==
  /\ WorkIdle
  /\ settings \in SettingsChoices({1}, {30}, {0}, {FALSE}, {TRUE},
                                   [fastest : PaceTexts, slowest : PaceTexts])
  /\ srvToday = <<>>
  /\ srvWeek = <<>>
  /\ weekAppliedRun = 0
  /\ renames = {}
  /\ run = 1
  /\ now = 390
  /\ FreshRun

NextPace == StartRun

SpecPace == InitPace /\ [][NextPace]_vars

\* the default names of a user who also lists 'Easy Run' among them
DefaultNamesWithEasyRun == DefaultNames \cup {<<Text("Easy Run")>>}

\* successive runs over today's activities with the weekly total off: runs
\* with a default name and runs already renamed, with and without 'Easy Run'
\* among the default names; the read budget lets one run rename two activities
InitRuns ==
  /\ WorkIdle
  /\ settings \in {[s EXCEPT !.defaultRunNames = dn] :
                     s \in SettingsChoices({MaxReads + 1}, {30}, {MaxMinutes}, {FALSE}, {TRUE},
                                          {OkPaceSetting}),
                     dn \in {DefaultNames, DefaultNamesWithEasyRun}}
  /\ srvToday \in TodayLists({"run", "renamed"})
  /\ srvWeek = <<>>
  /\ weekAppliedRun = 0
  /\ renames = {}
  /\ run = 1
  /\ now = 390
  /\ FreshRun

NextRuns ==
  \/ StartRun \/ RefreshToken \/ ListActivities \/ ActivityLoop \/ GetDetail
  \/ PollExit \/ PollDenied \/ PollFetch \/ PollSleep \/ HandleLaps \/ PutActivity
  \/ WeekBegin \/ NewRun

SpecRuns == InitRuns /\ [][NextRuns]_vars

(***************************************************************************)
(* Properties of the workout pipeline (checked under SpecWork).            *)
(***************************************************************************)
QualifyingIdx(segments) ==
  {i \in DOMAIN segments : isWork(segments[i], wRange, wUnit)}

\* C2: the merged output carries the same total distance and the same total
\* moving time as the input laps.
MergeConservation ==
  wpc # "input" =>
    /\ SumDistance(wSegments) = SumDistance(wLaps)
    /\ SumMovingTime(wSegments) = SumMovingTime(wLaps)

\* a merge of two or more laps happened, between non-qualifying neighbours
MergeConservationWitness ==
  /\ wpc = "merged"
  /\ Len(wSegments) + 2 <= Len(wLaps)
  /\ \E i \in DOMAIN wSegments : wSegments[i].merged
  /\ \E i \in DOMAIN wSegments : ~wSegments[i].merged

\* C3: merging the merged output again changes nothing: the same number of
\* segments, the same distance, moving time and classification at every
\* position, every merged segment still qualifies and none is merged further.
MergeIdempotent ==
  wpc \in {"remerged", "described"} =>
    /\ Len(wRemerged) = Len(wSegments)
    /\ \A i \in DOMAIN wSegments :
         /\ wRemerged[i].distance = wSegments[i].distance
         /\ wRemerged[i].moving_time = wSegments[i].moving_time
         /\ qualifies(wRemerged[i], wRange, wUnit) = qualifies(wSegments[i], wRange, wUnit)
         /\ wSegments[i].merged => qualifies(wSegments[i], wRange, wUnit)
         /\ wRemerged[i] = wSegments[i]

\* the second merge ran over an output holding merged and unmerged segments
MergeIdempotentWitness ==
  /\ wpc = "remerged"
  /\ \E i \in DOMAIN wSegments : wSegments[i].merged
  /\ \E i \in DOMAIN wSegments : ~wSegments[i].merged /\ qualifies(wSegments[i], wRange, wUnit)
  /\ \E i \in DOMAIN wSegments : ~qualifies(wSegments[i], wRange, wUnit)

\* C4: no qualifying segment gives no workout; exactly one qualifying segment
\* gives one rep (count 1, one body line) with zero rest and no rest annotation.
WindowingSingleRep ==
  wpc = "described" =>
    /\ QualifyingIdx(wSegments) = {} => wWorkout = Null
    /\ Cardinality(QualifyingIdx(wSegments)) = 1 =>
         /\ ~wWorkout.null
         /\ wWorkout.name.count = 1
         /\ Len(wWorkout.description) = 1
         /\ Len(WorkoutReps(wLaps, wRange, wUnit)) = 1
         /\ WorkoutReps(wLaps, wRange, wUnit)[1].restSeconds = 0
         /\ ~wWorkout.description[1].rest

\* one qualifying segment with non-qualifying laps before and after it
WindowingSingleRepWitness ==
  /\ wpc = "described"
  /\ Cardinality(QualifyingIdx(wSegments)) = 1
  /\ Len(wSegments) >= 3
  /\ ~isWork(wSegments[1], wRange, wUnit)
  /\ ~isWork(wSegments[Len(wSegments)], wRange, wUnit)
  /\ ~wWorkout.null

\* the k-th smallest of values, by counting (no sorting)
KthSmallest(values, k) ==
  CHOOSE v \in {values[i] : i \in DOMAIN values} :
    /\ Cardinality({i \in DOMAIN values : values[i] < v}) < k
    /\ k <= Cardinality({i \in DOMAIN values : values[i] <= v})

\* the snapped durations of the reps, read off the merged segments
SnappedRepSeconds ==
  LET idx == QualifyingIdx(wSegments)
      n == Cardinality(idx)
      pos(k) == CHOOSE i \in idx : Cardinality({j \in idx : j < i}) = k - 1
  IN [k \in 1..n |-> snapToMinuteIfClose(wSegments[pos(k)].moving_time)]

\* C5: the header's typical duration is the median of the snapped rep
\* durations: the middle value for an odd count, the mean of the two central
\* values rounded to the nearest second (half up) for an even count.
MedianCorrect ==
  (wpc = "described" /\ ~wWorkout.null) =>
    LET d == SnappedRepSeconds
        n == Len(d)
    IN wWorkout.name.typical =
         IF n % 2 = 1
         THEN formatDuration(KthSmallest(d, (n + 1) \div 2))
         ELSE LET lo == KthSmallest(d, n \div 2)
                  hi == KthSmallest(d, n \div 2 + 1)
              IN formatDuration(IF (lo + hi) % 2 = 0 THEN (lo + hi) \div 2
                                ELSE (lo + hi + 1) \div 2)

\* an even number of reps, out of order, whose two central durations have a half-second mean
MedianCorrectWitness ==
  /\ wpc = "described"
  /\ ~wWorkout.null
  /\ wWorkout.name.count = 4
  /\ LET d == SnappedRepSeconds
     IN /\ (KthSmallest(d, 2) + KthSmallest(d, 3)) % 2 = 1
        /\ d[1] > d[2]

\* the position in segs of the k-th qualifying segment
QualifyingPos(segs, k) ==
  CHOOSE i \in QualifyingIdx(segs) : Cardinality({j \in QualifyingIdx(segs) : j < i}) = k - 1

\* the summed moving time of the segments at positions from..to
MovingTimeFromTo(segs, from, to) ==
  LET RECURSIVE Go(_)
      Go(i) == IF i > to THEN 0 ELSE segs[i].moving_time + Go(i + 1)
  IN Go(from)

\* C18: no body line carries both a rest and a cooldown annotation; '+ CD' is
\* on the last rep's line exactly when the segments after the last qualifying
\* one have a summed moving time > 0, and on no other line; '+ rest' is on the
\* line of a rep exactly when it is not the last and the segments up to the
\* next qualifying one have a summed moving time > 0.
WorkoutAnnotations ==
  (wpc = "described" /\ ~wWorkout.null) =>
    LET n == Cardinality(QualifyingIdx(wSegments))
        body == wWorkout.description
    IN /\ Len(body) = n
       /\ \A k \in 1..n :
            /\ ~(body[k].rest /\ body[k].cd)
            /\ body[k].cd <=>
                 /\ k = n
                 /\ MovingTimeFromTo(wSegments, QualifyingPos(wSegments, n) + 1,
                                     Len(wSegments)) > 0
            /\ body[k].rest <=>
                 /\ k < n
                 /\ MovingTimeFromTo(wSegments, QualifyingPos(wSegments, k) + 1,
                                     QualifyingPos(wSegments, Min(k + 1, n)) - 1) > 0

\* three reps, rest on the first two lines and the cooldown flag on the third
WorkoutAnnotationsWitness ==
  /\ wpc = "described"
  /\ ~wWorkout.null
  /\ Len(wWorkout.description) = 3
  /\ wWorkout.description[1].rest
  /\ wWorkout.description[2].rest
  /\ wWorkout.description[3].cd

\* C19: the lap index ranges of the output segments, in order, are
\* consecutive and cover the input laps exactly once each; an unmerged segment
\* is its input lap unchanged, and so every non-qualifying lap is emitted
\* unchanged; a merged segment covers two or more laps, all qualifying; no
\* two adjacent output segments both come from qualifying laps.
MergePartition ==
  wpc # "input" =>
    /\ Len(wSegments) = 0 <=> Len(wLaps) = 0
    /\ Len(wSegments) > 0 =>
         /\ wSegments[1].span[1] = 1
         /\ wSegments[Len(wSegments)].span[2] = Len(wLaps)
    /\ \A i \in DOMAIN wSegments :
         /\ wSegments[i].span[1] <= wSegments[i].span[2]
         /\ wSegments[i].lap_index = wSegments[i].span[1]
         /\ i < Len(wSegments) => wSegments[i + 1].span[1] = wSegments[i].span[2] + 1
         /\ ~wSegments[i].merged => wSegments[i] = wLaps[wSegments[i].span[1]]
         /\ wSegments[i].merged =>
              /\ wSegments[i].span[1] < wSegments[i].span[2]
              /\ \A j \in wSegments[i].span[1]..wSegments[i].span[2] :
                   qualifies(wLaps[j], wRange, wUnit)
         /\ i < Len(wSegments) =>
              ~(/\ qualifies(wLaps[wSegments[i].span[1]], wRange, wUnit)
                /\ qualifies(wLaps[wSegments[i + 1].span[1]], wRange, wUnit))
    /\ \A j \in DOMAIN wLaps :
         ~qualifies(wLaps[j], wRange, wUnit) =>
           \E i \in DOMAIN wSegments : wSegments[i] = wLaps[j]

\* four laps: a non-qualifying lap, a merged pair, a non-qualifying lap
MergePartitionWitness ==
  /\ wpc = "merged"
  /\ Len(wLaps) = 4
  /\ Len(wSegments) = 3
  /\ wSegments[1] = wLaps[1]
  /\ wSegments[2].merged
  /\ wSegments[2].span = <<2, 3>>
  /\ wSegments[3] = wLaps[4]

\* the laps alternate qualifying / non-qualifying five times, the
\* non-qualifying ones with a moving time, with or without a trailing one
AlternatesFiveTimes ==
  /\ Len(wLaps) \in {9, 10}
  /\ \A j \in DOMAIN wLaps :
       IF j % 2 = 1 THEN qualifies(wLaps[j], wRange, wUnit)
       ELSE ~qualifies(wLaps[j], wRange, wUnit) /\ wLaps[j].moving_time > 0

ReadsWithinBudget == readsIssued <= settings.maxReadsPerRun

\* the same for a budget of at least one read
ReadsWithinPositiveBudget ==
  settings.maxReadsPerRun >= 1 => readsIssued <= settings.maxReadsPerRun

CountEv(ev) == Cardinality({i \in DOMAIN pollLog : pollLog[i].ev = ev})

\* the number of the laps fetch that entry i of pollLog belongs to
FetchNo(i) == Cardinality({j \in 1..i : pollLog[j].ev = "permit"})

PollerRunning == pc \in {"poll", "sleep"}

\* C7: a denial by the read-budget predicate ends the poller at once as
\* EXHAUSTED (null): no laps fetch and no sleep follows it.
DeniedEndsPoller ==
  \A i \in DOMAIN pollLog :
    pollLog[i].ev = "deny" =>
      /\ i = Len(pollLog)
      /\ ~PollerRunning
      /\ pollOutcome = "EXHAUSTED"
      /\ lapsResult = <<>>

\* a denial after an earlier attempt that was permitted, fetched and slept
DeniedEndsPollerWitness ==
  /\ Len(pollLog) = 4
  /\ pollLog[1].ev = "permit"
  /\ pollLog[3].ev = "sleep"
  /\ pollLog[4].ev = "deny"
  /\ pc = "afterpoll"

\* C8: the first non-empty successful fetch ends the poller at once as
\* SUCCESS with exactly the laps fetched; a failed fetch and an empty one are
\* treated alike: no error, and the next attempt (through the sleep) whenever
\* attempts remain.
FetchOutcomes ==
  \A i \in DOMAIN pollLog :
    /\ pollLog[i].ev = "laps" =>
         /\ i = Len(pollLog)
         /\ ~PollerRunning
         /\ pollOutcome = "SUCCESS"
         /\ Len(pollLog[i].laps) > 0
         /\ lapsResult = pollLog[i].laps
    /\ pollLog[i].ev \in {"failed", "empty"} =>
         /\ exitCode = 0
         /\ pollOutcome # "SUCCESS" \/ i < Len(pollLog)
         /\ AttemptLT(FetchNo(i), maxAttempts(settings)) =>
              IF i < Len(pollLog)
              THEN pollLog[i + 1].ev = "sleep"
              ELSE pc = "sleep" /\ pollOutcome = "POLLING"

\* an empty fetch and a failed fetch, each retried, then laps
FetchOutcomesWitness ==
  /\ Len(pollLog) >= 5
  /\ pollLog[2].ev \in {"failed", "empty"}
  /\ pollLog[Len(pollLog)].ev = "laps"
  /\ pollOutcome = "SUCCESS"
  /\ pc = "put"

\* max(1, floor(maxBudgetMinutes*60*1000 / intervalMs)), for intervalMs > 0
ClaimedMaxAttempts ==
  Max(1, (settings.lapRetryMaxMinutes * 60 * 1000)
           \div (settings.lapRetryIntervalSeconds * 1000))

\* C9: the poller fetches at most maxAttempts times, at least once and exactly
\* maxAttempts times when it ends EXHAUSTED without a denial.
AttemptsBounded ==
  /\ settings.lapRetryIntervalSeconds # 0 => CountEv("permit") <= ClaimedMaxAttempts
  /\ (pollOutcome = "EXHAUSTED" /\ CountEv("deny") = 0) =>
       /\ CountEv("permit") >= 1
       /\ settings.lapRetryIntervalSeconds # 0 => CountEv("permit") = ClaimedMaxAttempts

\* the same, for a retry interval other than 0
AttemptsBoundedPositiveInterval ==
  settings.lapRetryIntervalSeconds # 0 =>
    /\ CountEv("permit") <= ClaimedMaxAttempts
    /\ (pollOutcome = "EXHAUSTED" /\ CountEv("deny") = 0) =>
         CountEv("permit") = ClaimedMaxAttempts

\* C10: a sleep of intervalMs follows every unsuccessful fetch but the
\* maxAttempts-th, never a successful one; every fetch but the first comes
\* right after exactly one sleep; there are at most maxAttempts - 1 sleeps.
SleepDiscipline ==
  LET m == maxAttempts(settings) IN
  /\ \A i \in DOMAIN pollLog :
       /\ pollLog[i].ev = "sleep" =>
            /\ pollLog[i].ms = settings.lapRetryIntervalSeconds * 1000
            /\ i > 1
            /\ pollLog[i - 1].ev \in {"failed", "empty"}
            /\ m.k = "num" => FetchNo(i) < m.n
       /\ (pollLog[i].ev \in {"failed", "empty"} /\ (m.k = "num" => FetchNo(i) < m.n)) =>
            IF i < Len(pollLog) THEN pollLog[i + 1].ev = "sleep" ELSE pc = "sleep"
       /\ (pollLog[i].ev = "permit" /\ i > 1) =>
            /\ pollLog[i - 1].ev = "sleep"
            /\ pollLog[i - 2].ev # "sleep"
  /\ m.k = "num" => CountEv("sleep") <= m.n - 1
  /\ m.k = "nan" => CountEv("sleep") = 0

\* two unsuccessful fetches with one sleep between them, ending EXHAUSTED
\* after the last attempt without a sleep
SleepDisciplineWitness ==
  /\ Len(pollLog) = 5
  /\ pollLog[3].ev = "sleep"
  /\ pollLog[5].ev \in {"failed", "empty"}
  /\ pollOutcome = "EXHAUSTED"
  /\ maxAttempts(settings) = Num(2)

\* C11: a poller in POLLING eventually reaches SUCCESS or EXHAUSTED; the
\* outcome is SUCCESS exactly when laps were returned and EXHAUSTED when no
\* fetch returned a non-empty array; a terminal outcome changes only when the
\* poller is called again for the next activity; on EXHAUSTED the caller goes
\* on to the next activity with no rename and no failure exit status.
PollerTerminates ==
  /\ (pollOutcome = "POLLING") ~> (pollOutcome \in {"SUCCESS", "EXHAUSTED"})
  /\ [](pc = "afterpoll" =>
          /\ pollOutcome \in {"SUCCESS", "EXHAUSTED"}
          /\ pollOutcome = "SUCCESS" <=> Len(lapsResult) > 0
          /\ CountEv("laps") = 0 => pollOutcome = "EXHAUSTED")
  /\ [][(pollOutcome \in {"SUCCESS", "EXHAUSTED"} /\ pollOutcome' # pollOutcome) =>
          (pc = "detail" /\ pc' = "poll" /\ pollOutcome' = "POLLING" /\ pollLog' = <<>>)]_vars
  /\ [][(pc = "afterpoll" /\ pollOutcome = "EXHAUSTED") =>
          /\ pc' = "loop"
          /\ actIdx' = actIdx + 1
          /\ puts' = puts
          /\ srvToday' = srvToday
          /\ exitCode' = 0]_vars

\* every attempt was permitted and none returned laps: EXHAUSTED, and main
\* has moved on to the next activity
PollerTerminatesWitness ==
  /\ pollOutcome = "EXHAUSTED"
  /\ CountEv("deny") = 0
  /\ CountEv("permit") = 2
  /\ CountEv("sleep") = 1
  /\ pc = "loop"
  /\ actIdx = 2
  /\ puts = <<>>
  /\ exitCode = 0

\* C12 as stated: every rename of a run targets an activity whose current
\* name is one of the configured default names.
RenameOnlyDefaultNames ==
  \A i \in DOMAIN puts : isDefaultName(puts[i].was, settings.defaultRunNames)

\* the activity of today's list on the service with the id of detail
DetailOnService == {srvToday[i] : i \in {j \in DOMAIN srvToday : srvToday[j].id = detail.id}}

\* C12, amended: every rename of the per-activity loop targets an activity
\* whose name, in the listing, in the detail and on the service at the time of
\* the call, is one of the configured default names; the weekly aggregator's
\* rename comes last and targets the most recent run of the previous week
\* that is not a race, whatever its name.
RenameTargets ==
  /\ \A i \in DOMAIN puts :
       IF puts[i].weekly
       THEN /\ i = Len(puts)
            /\ pc = "done"
            /\ puts[i].id = WeekDecision(weekActivities, settings).id
            /\ puts[i].was = WeekDecision(weekActivities, settings).was
       ELSE /\ puts[i].was \in settings.defaultRunNames
            /\ ~isAlreadyRenamed(puts[i].was)
            /\ \E j \in DOMAIN activities :
                 activities[j].id = puts[i].id /\ activities[j].name = puts[i].was
  /\ pc = "put" =>
       /\ detail.name \in settings.defaultRunNames
       /\ activities[actIdx].id = detail.id
       /\ activities[actIdx].name \in settings.defaultRunNames
       /\ \A a \in DetailOnService : a.name = detail.name

\* a run that renamed a default-named activity and then put the weekly total
\* on an activity whose name is not a default name, past a custom-named run
RenameTargetsWitness ==
  /\ Len(puts) = 2
  /\ ~puts[1].weekly
  /\ puts[2].weekly
  /\ ~isDefaultName(puts[2].was, settings.defaultRunNames)
  /\ \E j \in DOMAIN activities : activities[j].name = <<Text("Tempo Tuesday")>>
  /\ pc = "done"

\* the activity at hand is skipped by one of the three name or race tests
SkippedByTest ==
  \/ isAlreadyRenamed(activities[actIdx].name)
  \/ ~isDefaultName(activities[actIdx].name, settings.defaultRunNames)
  \/ OnService.workout_type = 1

\* C13: no laps read is issued for an activity that is already renamed, has
\* no default name or is a race: every laps fetch (a read issued inside the
\* poller) is for an activity that passed all three tests, and the poller is
\* never entered for one that fails any of them.
NoLapsForSkipped ==
  /\ [][(pc = "poll" /\ readsIssued' # readsIssued) =>
          /\ ~SkippedByTest
          /\ detail.id = activities[actIdx].id
          /\ detail.workout_type # 1]_vars
  /\ [][(pc \in {"loop", "detail"} /\ actIdx \in DOMAIN activities /\ SkippedByTest) =>
          pc' \notin {"poll", "sleep", "afterpoll", "put"}]_vars

\* a race with a default name was skipped after its detail read, then a
\* renamed run and the end of the list: two reads, the poller never entered
NoLapsForSkippedWitness ==
  /\ Len(activities) = 2
  /\ activities[1].workout_type = 1
  /\ isDefaultName(activities[1].name, settings.defaultRunNames)
  /\ isAlreadyRenamed(activities[2].name)
  /\ actIdx = 3
  /\ pc = "weekly"
  /\ readsIssued = 2
  /\ pollOutcome = "none"

\* C14: a non-success status on a list, detail, laps or rename call is never
\* fatal: a run that got as far as issuing a read (its configuration was
\* valid and the token was refreshed) never sets a failure exit status.
HttpFailureNeverFatal == readsIssued >= 1 => exitCode = 0

\* the same for every call after the listing of today's activities: a run
\* fails only before its second read
HttpFailureAfterListingNotFatal ==
  /\ exitCode = 1 => (pc = "done" /\ readsIssued <= 1 /\ activities = <<>> /\ puts = <<>>)
  /\ pc \in {"loop", "detail", "poll", "sleep", "afterpoll", "put", "weekly", "wpage",
              "wfinal", "wput"} => exitCode = 0

\* C15: once the read counter has reached maxReadsPerRun, no step of the
\* run issues a read or a rename, the loop takes up no further activity, the
\* poller fetches nothing, the weekly aggregator lists nothing and the exit
\* status does not change.
BudgetReachedStopsRun ==
  [][(pc \notin {"start", "refresh"} /\ readsUsed >= maxReadsPerRun) =>
       /\ readsIssued' = readsIssued
       /\ puts' = puts
       /\ pc' \notin {"detail", "poll", "sleep", "put", "wfinal", "wput"}
       /\ exitCode' = exitCode]_vars

\* the same once the counter has counted at least one read
BudgetReachedAfterFirstRead ==
  [][(readsUsed >= 1 /\ readsUsed >= maxReadsPerRun) =>
       /\ readsIssued' = readsIssued
       /\ puts' = puts
       /\ pc' \notin {"detail", "poll", "sleep", "put", "wfinal", "wput"}
       /\ exitCode' = exitCode]_vars

(***************************************************************************)
(* Properties of the weekly aggregator over several runs (SpecWeek).       *)
(***************************************************************************)
\* C6: once a run has applied the weekly suffix, a later run of the
\* aggregator over the same week issues no rename.
WeeklySuffixIdempotent ==
  (weekAppliedRun # 0 /\ run > weekAppliedRun) =>
    /\ pc # "wput"
    /\ \A i \in DOMAIN puts : ~puts[i].weekly

\* a later run listed the whole week again and found the suffix in place
WeeklySuffixIdempotentWitness ==
  /\ weekAppliedRun = 1
  /\ run = 2
  /\ pc = "done"
  /\ Len(weekActivities) = Len(srvWeek)
  /\ Len(srvWeek) > 0
  /\ WeekDecision(weekActivities, settings).id # 0
  /\ ~WeekDecision(weekActivities, settings).rename

\* the weekly aggregator has got past its window test in this run
WeeklyActive ==
  \/ pc \in {"wpage", "wfinal", "wput"}
  \/ page >= 1
  \/ weekActivities # <<>>
  \/ \E i \in DOMAIN puts : puts[i].weekly

\* C16: the weekly aggregator lists and renames only with the feature flag on
\* and a local time from the active-window start to 30 minutes past it; in a
\* run later in the day the only read is the listing of today's activities
\* and there is no rename.
WeeklyOnlyInWindow ==
  /\ WeeklyActive =>
       /\ settings.weekTotals
       /\ now >= settings.activeHours.start
       /\ now <= settings.activeHours.start + 30
  /\ (now > settings.activeHours.start + 30 \/ ~settings.weekTotals) =>
       /\ readsIssued <= 1
       /\ puts = <<>>
       /\ pc \notin {"wpage", "wfinal", "wput"}

\* the first run, at minute 30 of the window, applied the weekly total; the
\* second, at minute 31 with the flag on, ended after one read and no rename
WeeklyOnlyInWindowWitness ==
  /\ weekAppliedRun = 1
  /\ run = 2
  /\ now = settings.activeHours.start + 31
  /\ settings.weekTotals
  /\ pc = "done"
  /\ exitCode = 0
  /\ readsIssued = 1
  /\ readsUsed < maxReadsPerRun
  /\ puts = <<>>

(***************************************************************************)
(* Properties of the pace range (checked under SpecPace).                  *)
(***************************************************************************)
\* C17: a non-null pace range built from the settings has fastest <= slowest
\* and both bounds strictly positive.
PaceRangeWellFormed ==
  ~wRange.null =>
    /\ wRange.fastest <= wRange.slowest
    /\ wRange.fastest > 0
    /\ wRange.slowest > 0

\* a non-null pace range is ordered and has no negative bound; a bound is 0
\* only when one of the two strings is M:SS with M and SS both 0
PaceRangeOrdered ==
  ~wRange.null =>
    /\ wRange.fastest <= wRange.slowest
    /\ wRange.fastest >= 0
    /\ wRange.fastest = 0 =>
         \/ settings.paceRange.fastest = MSS(0, 0)
         \/ settings.paceRange.slowest = MSS(0, 0)
    /\ wRange = paceRangeFromSettings(settings)

(***************************************************************************)
(* C21.  Names written by the per-activity pipeline.                       *)
(***************************************************************************)
\* every name a per-activity stravaPutActivity of this run carried, and the
\* name of the payload about to be sent, passes isAlreadyRenamed
WrittenNamesMarked ==
  /\ \A i \in DOMAIN puts : ~puts[i].weekly => isAlreadyRenamed(puts[i].name)
  /\ pc = "put" => isAlreadyRenamed(update.name)

\* the activity at hand was renamed with success in an earlier run and still
\* has that name on the service
RenamedEarlier ==
  \E r \in renames :
    /\ r.run < run
    /\ r.id = activities[actIdx].id
    /\ OnService.name = r.name

\* C21: every name the per-activity pipeline writes (a workout header or
\* 'Easy Run') matches a marker of isAlreadyRenamed, and in a later run the
\* per-activity loop makes no detail read, no laps fetch and no rename for
\* an activity that an earlier run renamed with success and whose name is
\* unchanged
RenamedNeverReprocessed ==
  /\ []WrittenNamesMarked
  /\ [][(\/ pc = "detail" /\ readsIssued' = readsIssued + 1
         \/ pc = "poll" /\ readsIssued' = readsIssued + 1
         \/ pc = "put" /\ puts' # puts)
        => ~RenamedEarlier]_vars

\* a second run has walked past two activities that the first run renamed,
\* one to 'Easy Run' (a default name of this user) and one to a workout
\* header, with the listing as its only read and without a rename
RenamedNeverReprocessedWitness ==
  /\ run = 2
  /\ pc = "loop"
  /\ Len(activities) = 2
  /\ actIdx = 3
  /\ readsIssued = 1
  /\ puts = <<>>
  /\ <<Text("Easy Run")>> \in settings.defaultRunNames
  /\ \E r \in renames :
       r.run = 1 /\ r.name = <<Text("Easy Run")>> /\ r.name = activities[r.id].name
  /\ \E r \in renames :
       r.run = 1 /\ r.name[1].k = "hdr" /\ r.name = activities[r.id].name

====
